---- MODULE Spec2Model ----
(***************************************************************************)
(* Model of ttare (src/main.rs): the entropy-adaptive archiver.            *)
(*                                                                         *)
(* f32 quantities are modelled in two ways.  Entropy scores and the        *)
(* threshold are fixed-point numbers with FracBits fractional bits         *)
(* (SCALE = 1.0).  The sample-length computation of analyze_entropy is     *)
(* modelled with the 24-bit significand of f32 (round to nearest, ties to  *)
(* even), because its rounding decides how many bytes are read.            *)
(***************************************************************************)
EXTENDS Integers, Sequences, FiniteSets, TLC

\* ---------------------------------------------------------------- bounds
MaxFiles == 2
MaxLen == 2
MaxByte == 1
MaxSmallLen == 12
MaxBigOff == 6
\* fractional bits of the fixed-point entropy scores
FracBits == 10

\* ------------------------------------------------------- program constants
F32Bits == 24
TTARE_COMPRESS_FILE_NAME == ".ttare.tar.gz"
\* 1.0 in fixed point
SCALE == 2 ^ FracBits
\* 6.5 in fixed point
ENTROPY_THRESHOLD == (13 * SCALE) \div 2
\* 0.5 as numerator / 2^exp
ENTROPY_SAMPLING == [num |-> 1, exp |-> 1]

Bytes == 0..MaxByte
PathSeq == <<"a.txt", "d/b.bin", TTARE_COMPRESS_FILE_NAME>>
Paths == {PathSeq[k] : k \in 1..Len(PathSeq)}
PathCode(p) == CHOOSE k \in 1..Len(PathSeq) : PathSeq[k] = p

Contents == UNION {[1..n -> Bytes] : n \in 0..MaxLen}
FileLists == UNION {[1..n -> Paths] : n \in 0..MaxFiles}
Ratios == {ENTROPY_SAMPLING, [num |-> 1, exp |-> 0]}
Thresholds == {0, SCALE, ENTROPY_THRESHOLD}

Pow2(k) == 2 ^ k

\* file lengths and ratios of the sample-length specification
SampleLens == (0..MaxSmallLen) \cup ((Pow2(F32Bits) - 1)..(Pow2(F32Bits) + MaxBigOff))
SampleRatios == Ratios \cup {[num |-> 3, exp |-> 2], [num |-> 1, exp |-> 2]}

\* ------------------------------------------------------------ f32 helpers
RECURSIVE BitLen(_)
BitLen(n) == IF n = 0 THEN 0 ELSE 1 + BitLen(n \div 2)

\* round the integer q to F32Bits significant bits, ties to even
RoundSig(q) ==
    LET s == BitLen(q) - F32Bits IN
    IF s <= 0 THEN q
    ELSE LET d == Pow2(s)
             lo == q \div d
             r == q % d
             half == d \div 2
             up == (r > half) \/ (r = half /\ lo % 2 = 1)
         IN (IF up THEN lo + 1 ELSE lo) * d

\* `len as f32`
U64ToF32(len) == RoundSig(len)

\* (len as f32 * entropy_sampling) as usize
SampleLen(len, ratio) ==
    RoundSig(U64ToF32(len) * ratio.num) \div Pow2(ratio.exp)

\* floor(len * ratio) in exact arithmetic
ExactFloor(len, ratio) == (len * ratio.num) \div Pow2(ratio.exp)

\* ---------------------------------------------------------------- entropy
Count(bytes, v) == Cardinality({k \in 1..Len(bytes) : bytes[k] = v})

RECURSIVE IntLog(_, _)
\* largest e with c * 2^e <= n   (n >= c >= 1)
IntLog(n, c) == IF 2 * c <= n THEN 1 + IntLog(n, 2 * c) ELSE 0

RECURSIVE FracLog(_, _, _)
\* fractional bits of log2(y / SCALE), y in [SCALE, 2*SCALE)
FracLog(y, k, acc) ==
    IF k = 0 THEN acc
    ELSE LET y2 == (y * y) \div SCALE IN
         IF y2 >= 2 * SCALE
         THEN FracLog(y2 \div 2, k - 1, acc + Pow2(k - 1))
         ELSE FracLog(y2, k - 1, acc)

\* log2(n / c) in fixed point
Log2Fix(n, c) ==
    LET e == IntLog(n, c)
        y == (n * SCALE) \div (c * Pow2(e))
    IN e * SCALE + FracLog(y, FracBits, 0)

\* -p * log2(p) with p = count / total
Term(count, total) == (count * Log2Fix(total, count)) \div total

RECURSIVE SumTerms(_, _)
SumTerms(S, bytes) ==
    IF S = {} THEN 0
    ELSE LET v == CHOOSE x \in S : TRUE
         IN Term(Count(bytes, v), Len(bytes)) + SumTerms(S \ {v}, bytes)

\* an entropy that divides by the empty total and saturates
entropyEmptyMax(entropy_bytes) ==
    IF Len(entropy_bytes) = 0 THEN 8 * SCALE
    ELSE SumTerms({entropy_bytes[k] : k \in 1..Len(entropy_bytes)}, entropy_bytes)

entropy(entropy_bytes) ==
    SumTerms({entropy_bytes[k] : k \in 1..Len(entropy_bytes)}, entropy_bytes)

\* the comparison turned into >=
ClassifyGe(score, entropy_threshold) ==
    IF score >= entropy_threshold THEN "DontCompress" ELSE "Compress"

\* the decision at the end of analyze_entropy
Classify(score, entropy_threshold) ==
    IF score > entropy_threshold THEN "DontCompress" ELSE "Compress"

\* ------------------------------------------------------------ file handle
\* read_exact of n bytes from position pos
ReadExact(content, pos, n) == SubSeq(content, pos + 1, pos + n)

\* the seek left out
SeekNone(pos) == pos

\* file.seek(SeekFrom::Start(0)) : the new position
SeekStart(pos) == 0

\* tar append_file: header from the path, data read from the current position
AppendFile(tar, path, content, pos) ==
    Append(tar, [path |-> path, data |-> SubSeq(content, pos + 1, Len(content))])

\* the raw arm taken whatever the decision
RootAfterAlways(decision, root, path, content, pos) ==
    AppendFile(root, path, content, pos)

\* the container chosen by the match on the analysis result
RootAfter(decision, root, path, content, pos) ==
    IF decision = "DontCompress" THEN AppendFile(root, path, content, pos) ELSE root

CompressAfter(decision, ctar, path, content, pos) ==
    IF decision = "Compress" THEN AppendFile(ctar, path, content, pos) ELSE ctar

\* ------------------------------------------------------------- containers
RECURSIVE TarBytes(_)
\* Builder::into_inner : the entries, then the end-of-archive marker
TarBytes(entries) ==
    IF entries = <<>> THEN <<0, 0>>
    ELSE LET e == Head(entries)
         IN <<PathCode(e.path), Len(e.data)>> \o e.data \o TarBytes(Tail(entries))

\* GzEncoder : magic bytes, then the payload
Gz(bytes) == <<31, 139>> \o bytes

\* root_tar.append_data(header, TTARE_COMPRESS_FILE_NAME, compressed_buf)
AppendReserved(root, ctar) ==
    Append(root, [path |-> TTARE_COMPRESS_FILE_NAME, data |-> Gz(TarBytes(ctar))])

\* --------------------------------------------------------------- the state
VARIABLES files, fs, entropy_sampling, entropy_threshold, out0,
          pc, root_tar, compress_tar, log, outExists, outData, result,
          dres, dinput, extracted,
          sLen, sRatio, sPc, sBytesLen

vars == <<files, fs, entropy_sampling, entropy_threshold, out0,
          pc, root_tar, compress_tar, log, outExists, outData, result,
          dres, dinput, extracted,
          sLen, sRatio, sPc, sBytesLen>>

inputVars == <<files, fs, entropy_sampling, entropy_threshold, out0>>
sampleVars == <<sLen, sRatio, sPc, sBytesLen>>
decompressVars == <<dres, dinput, extracted>>

Range(s) == {s[k] : k \in 1..Len(s)}

\* content of a destination file left by an earlier run
OldOutput == <<9>>

\* an archive on disk with a member that escapes the destination directory
EvilArchive == <<[path |-> "../x", data |-> <<1>>]>>
ArchiveNames == {"out.ttare", "evil.ttare"}

Init ==
    /\ files \in FileLists
    /\ fs \in [Paths -> Contents]
    /\ \A p \in Paths \ Range(files) : fs[p] = <<>>
    /\ entropy_sampling \in Ratios
    /\ entropy_threshold \in Thresholds
    /\ out0 \in BOOLEAN
    /\ pc = "loop"
    /\ root_tar = <<>>
    /\ compress_tar = <<>>
    /\ log = <<>>
    /\ outExists = out0
    /\ outData = IF out0 THEN OldOutput ELSE <<>>
    /\ result = "none"
    /\ dres = "none"
    /\ dinput = "none"
    /\ extracted = {}
    /\ sLen = 0
    /\ sRatio = ENTROPY_SAMPLING
    /\ sPc = "off"
    /\ sBytesLen = 0

\* one iteration of the loop of compress: open, analyze_entropy, seek, append
ProcessFile ==
    /\ pc = "loop"
    /\ Len(log) < Len(files)
    /\ LET file_name == files[Len(log) + 1]
           content == fs[file_name]
           entropy_bytes_len == SampleLen(Len(content), entropy_sampling)
       IN IF entropy_bytes_len > Len(content)
          THEN \* read_exact fails with UnexpectedEof
               /\ pc' = "failed"
               /\ result' = "Err"
               /\ UNCHANGED <<root_tar, compress_tar, log>>
          ELSE LET entropy_bytes == ReadExact(content, 0, entropy_bytes_len)
                   score == entropy(entropy_bytes)
                   analysis_result == Classify(score, entropy_threshold)
                   pos == SeekStart(entropy_bytes_len)
               IN /\ root_tar' = RootAfter(analysis_result, root_tar, file_name, content, pos)
                  /\ compress_tar' = CompressAfter(analysis_result, compress_tar, file_name, content, pos)
                  /\ log' = Append(log, [score |-> score,
                                         decision |-> analysis_result,
                                         sample_len |-> entropy_bytes_len,
                                         pos |-> pos])
                  /\ UNCHANGED <<pc, result>>
    /\ UNCHANGED <<inputVars, outExists, outData, decompressVars, sampleVars>>

\* an I/O error (open, metadata, read, seek, append) in an iteration: `?` returns
FileError ==
    /\ pc = "loop"
    /\ Len(log) < Len(files)
    /\ pc' = "failed"
    /\ result' = "Err"
    /\ UNCHANGED <<inputVars, root_tar, compress_tar, log, outExists, outData,
                   decompressVars, sampleVars>>

\* after the loop: gzip the compress tar and append it under the reserved name
Finalize ==
    /\ pc = "loop"
    /\ Len(log) = Len(files)
    /\ root_tar' = AppendReserved(root_tar, compress_tar)
    /\ pc' = "create"
    /\ UNCHANGED <<inputVars, compress_tar, log, outExists, outData, result,
                   decompressVars, sampleVars>>

\* File::create(output_file): creates or truncates
CreateOutput ==
    /\ pc = "create"
    /\ outExists' = TRUE
    /\ outData' = <<>>
    /\ pc' = "write"
    /\ UNCHANGED <<inputVars, root_tar, compress_tar, log, result,
                   decompressVars, sampleVars>>

\* File::create fails: nothing is created
CreateError ==
    /\ pc = "create"
    /\ pc' = "failed"
    /\ result' = "Err"
    /\ UNCHANGED <<inputVars, root_tar, compress_tar, log, outExists, outData,
                   decompressVars, sampleVars>>

\* write_all succeeds
WriteAll ==
    /\ pc = "write"
    /\ outData' = TarBytes(root_tar)
    /\ pc' = "done"
    /\ result' = "Ok"
    /\ UNCHANGED <<inputVars, root_tar, compress_tar, log, outExists,
                   decompressVars, sampleVars>>

\* write_all fails after a proper prefix was written
WriteError ==
    /\ pc = "write"
    /\ \E k \in 0..(Len(TarBytes(root_tar)) - 1) :
           outData' = SubSeq(TarBytes(root_tar), 1, k)
    /\ pc' = "failed"
    /\ result' = "Err"
    /\ UNCHANGED <<inputVars, root_tar, compress_tar, log, outExists,
                   decompressVars, sampleVars>>

\* main, Commands::Decompress arm: the body is empty, main returns Ok(())
Decompress ==
    /\ pc \in {"done", "failed"}
    /\ dres = "none"
    /\ \E input_file \in ArchiveNames : dinput' = input_file
    /\ dres' = "Ok"
    /\ UNCHANGED <<extracted, inputVars, pc, root_tar, compress_tar, log,
                   outExists, outData, result, sampleVars>>

Next ==
    \/ ProcessFile
    \/ FileError
    \/ Finalize
    \/ CreateOutput
    \/ CreateError
    \/ WriteAll
    \/ WriteError
    \/ Decompress

Spec == Init /\ [][Next]_vars

\* ------------------------------------------- the sample-length specification
\* analyze_entropy on a file of sLen bytes, the content left abstract
InitSample ==
    /\ files = <<>>
    /\ fs = [p \in Paths |-> <<>>]
    /\ entropy_sampling = ENTROPY_SAMPLING
    /\ entropy_threshold = ENTROPY_THRESHOLD
    /\ out0 = FALSE
    /\ pc = "off"
    /\ root_tar = <<>>
    /\ compress_tar = <<>>
    /\ log = <<>>
    /\ outExists = FALSE
    /\ outData = <<>>
    /\ result = "none"
    /\ dres = "none"
    /\ dinput = "none"
    /\ extracted = {}
    /\ sLen \in SampleLens
    /\ sRatio \in SampleRatios
    /\ sPc = "metadata"
    /\ sBytesLen = 0

\* let entropy_bytes_len = (file.metadata()?.len() as f32 * entropy_sampling) as usize
SampleSize ==
    /\ sPc = "metadata"
    /\ sBytesLen' = SampleLen(sLen, sRatio)
    /\ sPc' = "read"
    /\ UNCHANGED <<sLen, sRatio, inputVars, pc, root_tar, compress_tar, log,
                   outExists, outData, result, decompressVars>>

\* file.read_exact(&mut entropy_bytes)?
SampleRead ==
    /\ sPc = "read"
    /\ sPc' = IF sBytesLen <= sLen THEN "ok" ELSE "eof"
    /\ UNCHANGED <<sLen, sRatio, sBytesLen, inputVars, pc, root_tar, compress_tar,
                   log, outExists, outData, result, decompressVars>>

NextSample == SampleSize \/ SampleRead

SpecSample == InitSample /\ [][NextSample]_vars

\* ------------------------------------------------------ claim vocabulary
InitialData == IF out0 THEN OldOutput ELSE <<>>

Reserved(tar) == {k \in 1..Len(tar) : tar[k].path = TTARE_COMPRESS_FILE_NAME}

AnyCompress == \E k \in 1..Len(log) : log[k].decision = "Compress"

RECURSIVE SelectIdx(_, _)
\* the indices k <= n of the processed files with decision d, in input order
SelectIdx(d, n) ==
    IF n = 0 THEN <<>>
    ELSE IF log[n].decision = d THEN Append(SelectIdx(d, n - 1), n)
         ELSE SelectIdx(d, n - 1)

\* the entries of the root tar that come from input files
RawPart == IF pc = "loop" THEN root_tar ELSE SubSeq(root_tar, 1, Len(root_tar) - 1)

Built == pc \in {"loop", "create", "write", "done"}

PathsOf(tar) == [k \in 1..Len(tar) |-> tar[k].path]
FilesAt(idx) == [k \in 1..Len(idx) |-> files[idx[k]]]
WholeAt(idx) == [k \in 1..Len(idx) |-> [path |-> files[idx[k]], data |-> fs[files[idx[k]]]]]

\* ------------------------------------------------------------------ claims

\* C1: compress followed by decompress of the produced archive restores every
\* input file with its path and its content.
C1_RoundTrip ==
    (pc = "done" /\ dres = "Ok" /\ dinput = "out.ttare") =>
        \A k \in 1..Len(files) :
            [path |-> files[k], data |-> fs[files[k]]] \in extracted

\* C2: after a successful compress the outer archive holds the reserved entry
\* exactly when some file was classified Compress: none when no file was,
\* exactly one when some file was.
C2_ReservedIffCompress ==
    pc = "done" =>
        /\ (~AnyCompress => Cardinality(Reserved(root_tar)) = 0)
        /\ (AnyCompress => Cardinality(Reserved(root_tar)) = 1)

\* C3: the outer archive produced by compress has at most one entry with the
\* reserved name, whatever the input file list.
C3_AtMostOneReserved ==
    pc = "done" => Cardinality(Reserved(root_tar)) <= 1

\* C4: analyze_entropy answers Compress exactly when the score is at most the
\* threshold and DontCompress exactly when it is strictly greater.
C4_Decision ==
    \A k \in 1..Len(log) :
        /\ log[k].score = entropy(ReadExact(fs[files[k]], 0, log[k].sample_len))
        /\ (log[k].decision = "Compress" <=> log[k].score <= entropy_threshold)
        /\ (log[k].decision = "DontCompress" <=> log[k].score > entropy_threshold)

C4_Witness ==
    \E k \in 1..Len(log) :
        /\ log[k].score = entropy_threshold
        /\ log[k].score > 0
        /\ log[k].decision = "Compress"

\* C5: every processed input file is in exactly one of the two containers, the
\* raw one if DontCompress and the inner one if Compress, and each container
\* keeps the input order.
C5_Partition ==
    Built =>
        /\ Len(RawPart) + Len(compress_tar) = Len(log)
        /\ PathsOf(RawPart) = FilesAt(SelectIdx("DontCompress", Len(log)))
        /\ PathsOf(compress_tar) = FilesAt(SelectIdx("Compress", Len(log)))

C5_Witness ==
    /\ pc = "done"
    /\ Len(files) = 2
    /\ Len(compress_tar) = 2
    /\ compress_tar[1].path # compress_tar[2].path

\* C6: the destination is created or truncated only once every input file is
\* processed and the outer stream is built, and a failed compress leaves the
\* destination as it was.
C6_AtomicOutput ==
    /\ ((outExists # out0 \/ outData # InitialData) =>
            (pc # "loop" /\ Len(log) = Len(files)))
    /\ (result = "Err" => (outExists = out0 /\ outData = InitialData))

\* the members of the archive named on the command line
ArchiveContent(name) == IF name = "evil.ttare" THEN EvilArchive ELSE root_tar

\* C7: decompressing an archive with a member whose path leaves the destination
\* directory is reported as a failure and writes nothing outside.
C7_TraversalRejected ==
    (dres # "none" /\ \E e \in Range(ArchiveContent(dinput)) : e.path \notin Paths) =>
        /\ dres = "Err"
        /\ \A e \in extracted : e.path \in Paths

\* C8: the sample length is floor(file_length * sampling_ratio), it never
\* exceeds the file length, and the prefix read does not fail.
C8_SampleLength ==
    /\ (sPc \in {"read", "ok", "eof"} =>
            (sBytesLen = ExactFloor(sLen, sRatio) /\ sBytesLen <= sLen))
    /\ sPc # "eof"

\* C9: a file whose sample is empty scores 0 and is classified Compress; it is
\* in the inner container and not among the raw entries.
C9_EmptySample ==
    Built =>
        \A k \in 1..Len(log) :
            log[k].sample_len = 0 =>
                /\ log[k].score = 0
                /\ log[k].decision = "Compress"
                /\ \E j \in 1..Len(compress_tar) : compress_tar[j].path = files[k]
                /\ \A j \in 1..Len(RawPart) : RawPart[j].path # files[k]

C9_Witness ==
    /\ pc = "done"
    /\ \E k \in 1..Len(log) :
           /\ log[k].sample_len = 0
           /\ Len(fs[files[k]]) > 0
           /\ \E j \in 1..Len(compress_tar) : compress_tar[j].path = files[k]

====
